---- MODULE Spec2Model ----
(***************************************************************************)
(* Model of the scriptpoints debug adapter tracker (extension.ts).         *)
(*                                                                         *)
(* The tracker created by createDebugAdapterTracker sits between the       *)
(* front-end and the debug adapter.  onWillReceiveMessage sees the         *)
(* requests going to the adapter, onDidSendMessage the responses and       *)
(* events coming back.  A stopped event starts an asynchronous handler     *)
(* that suspends on every customRequest round trip; everything between two *)
(* suspensions runs atomically on the single-threaded event loop.          *)
(*                                                                         *)
(* An optional JavaScript value is modelled as a sequence: <<>> stands for *)
(* undefined and <<v>> for the value v.                                    *)
(***************************************************************************)
EXTENDS Integers, Sequences, FiniteSets, TLC

VARIABLES
    sources,      \* Map<string, ScriptpointSource>, keyed by request path
    idToSource,   \* Map<number, ScriptpointSource>; a source is named by its key in sources
    step,         \* true if execution was last continued by a step command
    requests,     \* the requests the front-end has sent, by seq, each with the
                  \* arguments forwarded to the adapter and the adapter's response
    handlers,     \* one record per stopped event: the state of its async handler
    raised        \* number of onDidSendMessage calls whose promise was rejected

vars == <<sources, idToSource, step, requests, handlers, raised>>

----------------------------------------------------------------------------
(* Bounds of the model *)

\* number of requests the front-end sends
MaxSeq == 2
\* number of stopped events
MaxStops == 1

----------------------------------------------------------------------------
(* JavaScript values *)

Undefined == <<>>

Some(v) == <<v>>

\* truthiness of an optional number: undefined and 0 are falsy
TruthyNum(v) == v # Undefined /\ v[1] # 0

\* truthiness of an optional string: undefined and "" are falsy
TruthyStr(v) == v # Undefined /\ v[1] # ""

----------------------------------------------------------------------------
(* Log messages and scripts.  A text is a sequence of tokens: the marker    *)
(* "!", white space (" " and the line terminator "\n") and statements.      *)
(* Each statement token stands for one JavaScript statement of a script:    *)
(*   "E"  log(await evaluate('x'))                                          *)
(*   "H"  log('hit')                                                        *)
(*   "V"  log(await variables('x'))                                         *)
(*   "M"  log(await memory('x', 4))                                         *)
(*   "C"  command('c')                                                      *)
(*   "T"  throw 'e'                                                         *)
(* "p" is ordinary log message text that is no script.                      *)

Statements == {"E", "H", "V", "M", "C", "T"}

WhiteSpace == {" ", "\n"}

LineTerminators == {"\n"}

\* \s* of the pattern: the first position at or after i that holds no white space
RECURSIVE SkipWhiteSpace(_, _)
SkipWhiteSpace(s, i) ==
    IF i <= Len(s) /\ s[i] \in WhiteSpace THEN SkipWhiteSpace(s, i + 1) ELSE i

\* (.*) of the pattern: the longest run from i on that holds no line terminator
RECURSIVE DotStar(_, _)
DotStar(s, i) ==
    IF i <= Len(s) /\ s[i] \notin LineTerminators
    THEN <<s[i]>> \o DotStar(s, i + 1)
    ELSE <<>>

\* logMessage.match(/!!?\s*(.*)/)[1] for a message that starts with "!"
ExtractScript(msg) ==
    LET afterMarker == IF Len(msg) > 1 /\ msg[2] = "!" THEN 3 ELSE 2
    IN  DotStar(msg, SkipWhiteSpace(msg, afterMarker))

\* the test that makes an entry a scriptpoint
IsTagged(logMessage) ==
    /\ logMessage # Undefined
    /\ Len(logMessage[1]) # 0
    /\ logMessage[1][1] = "!"

\* stop flag of a tagged message
StopFlag(msg) == Len(msg) > 1 /\ msg[2] = "!"

----------------------------------------------------------------------------
(* Registry *)

\* variant: a new scriptpoint starts with a descriptor for line 10 of a.cpp
ScriptpointPrebound(index, script, stop) ==
    [index |-> index, script |-> script, stop |-> stop,
     breakpoint |-> Some([id |-> Undefined, path |-> Some("a.cpp"), line |-> Some(10),
                          endLine |-> Undefined, column |-> Undefined,
                          endColumn |-> Undefined, instructionReference |-> Undefined])]

\* new Scriptpoint(index, script, stop); index counts from 0 as in the request array
Scriptpoint(index, script, stop) ==
    [index |-> index, script |-> script, stop |-> stop, breakpoint |-> Undefined]

\* the scriptpoints pushed by the rewrite loop over entries i..Len(bps) (1-based)
RECURSIVE RewriteLoop(_, _)
RewriteLoop(bps, i) ==
    IF i > Len(bps) THEN <<>>
    ELSE IF ~IsTagged(bps[i].logMessage) THEN RewriteLoop(bps, i + 1)
    ELSE <<Scriptpoint(i - 1, ExtractScript(bps[i].logMessage[1]),
                       StopFlag(bps[i].logMessage[1]))>>
         \o RewriteLoop(bps, i + 1)

\* variant: the log message of every entry is cleared
ClearAll(bps) ==
    [i \in 1..Len(bps) |-> [bps[i] EXCEPT !.logMessage = Undefined]]

\* the request's breakpoints after the loop: the log message of a scriptpoint is cleared
ClearTagged(bps) ==
    [i \in 1..Len(bps) |->
        IF IsTagged(bps[i].logMessage)
        THEN [bps[i] EXCEPT !.logMessage = Undefined]
        ELSE bps[i]]

----------------------------------------------------------------------------
(* Matching a breakpoint descriptor against the top stack frame *)

\* variant: endLine, column and endColumn are compared only where the descriptor has them
SourceRangeMatchIfAvailable(breakpoint, frame) ==
    /\ breakpoint.path # Undefined
    /\ breakpoint.path = frame.path
    /\ breakpoint.line # Undefined
    /\ breakpoint.line = frame.line
    /\ (breakpoint.endLine # Undefined => breakpoint.endLine = frame.endLine)
    /\ (breakpoint.column # Undefined => breakpoint.column = frame.column)
    /\ (breakpoint.endColumn # Undefined => breakpoint.endColumn = frame.endColumn)

\* the source-range comparison of the else branch
SourceRangeMatch(breakpoint, frame) ==
    /\ breakpoint.path # Undefined
    /\ breakpoint.path = frame.path
    /\ breakpoint.line # Undefined
    /\ breakpoint.line = frame.line
    /\ breakpoint.endLine = frame.endLine
    /\ breakpoint.column = frame.column
    /\ breakpoint.endColumn = frame.endColumn

\* variant: a descriptor whose instruction reference differs still matches by source range
MatchWithFallback(breakpoint, frame) ==
    \/ /\ TruthyStr(breakpoint.instructionReference)
       /\ breakpoint.instructionReference = frame.instructionPointerReference
    \/ SourceRangeMatch(breakpoint, frame)

\* the value of match for one scriptpoint's descriptor and the frame
Match(breakpoint, frame) ==
    IF TruthyStr(breakpoint.instructionReference)
    THEN breakpoint.instructionReference = frame.instructionPointerReference
    ELSE SourceRangeMatch(breakpoint, frame)

\* stopped.body.reason.includes('breakpoint'), over the reasons of the protocol
ReasonIncludesBreakpoint(reason) ==
    reason \in {"breakpoint", "function breakpoint", "data breakpoint",
                "instruction breakpoint"}

----------------------------------------------------------------------------
(* Response correlation *)

\* variant: every scriptpoint is given the first descriptor of the response
ElementAtFirst(breakpoints, index) ==
    IF Len(breakpoints) > 0 THEN Some(breakpoints[1]) ELSE Undefined

\* body.breakpoints[index] of a response body that exists; undefined past the end
ElementAt(breakpoints, index) ==
    IF index + 1 <= Len(breakpoints) THEN Some(breakpoints[index + 1]) ELSE Undefined

\* The loop over source.scriptpoints for a response with the source's seq.
\* acc = [scriptpoints, ids, threw]: the list so far, the ids to register and
\* whether a TypeError ended the loop.
RECURSIVE BindLoop(_, _, _)
BindLoop(acc, i, body) ==
    IF i > Len(acc.scriptpoints) THEN acc
    ELSE IF body = Undefined
    THEN [acc EXCEPT !.threw = TRUE]       \* body.breakpoints of undefined
    ELSE LET bp == ElementAt(body[1], acc.scriptpoints[i].index)
             bound == [acc EXCEPT !.scriptpoints[i].breakpoint = bp]
         IN  IF bp = Undefined
             THEN [bound EXCEPT !.threw = TRUE]   \* scriptpoint.breakpoint.id of undefined
             ELSE BindLoop(
                    IF TruthyNum(bp[1].id)
                    THEN [bound EXCEPT !.ids = @ \cup {bp[1].id[1]}]
                    ELSE bound,
                    i + 1, body)

----------------------------------------------------------------------------
(* The stopped-event handler.  A handler record h holds the locals of one   *)
(* invocation: threadId, stepped, frame, the array the for-of loop iterates *)
(* (live: still source.scriptpoints; otherwise arr, the array as it was     *)
(* when a rewrite replaced it), the loop position i, the statement k of the *)
(* running script, what it awaits (pc), and what it has done (trace).       *)
(* executed lists the scriptpoints whose script it has started, results the *)
(* values executeScriptpoint resolved with; a trace entry "rejected" names  *)
(* by num the position in executed of the script a failed request belongs  *)
(* to.  after, sent and seen record the front-end's latest command, the        *)
(* number of requests it has sent and the answered requests at the time of  *)
(* the stopped event, event the body of that event.  console lists the      *)
(* messages the handler appended to the debug console, each as the sequence *)
(* of the strings it was concatenated from.                                 *)

Ev(op, num, text) == [op |-> op, num |-> num, text |-> text]

\* the array the scan loop iterates
ScanList(h) ==
    IF h.live THEN sources[h.frame.path[1]].scriptpoints ELSE h.arr

\* a finished handler keeps no reference to the array
Done(h) == [h EXCEPT !.pc = "done", !.live = FALSE, !.arr = <<>>, !.i = 0, !.k = 0]

\* variant: the stop flag is read the wrong way round
ShouldContinueWhenStop(h, sp, success) ==
    success /\ sp.stop /\ ~h.stepped /\ ReasonIncludesBreakpoint(h.reason)

\* the resume policy after executeScriptpoint returned success for scriptpoint sp
ShouldContinue(h, sp, success) ==
    success /\ ~sp.stop /\ ~h.stepped /\ ReasonIncludesBreakpoint(h.reason)

\* the Function constructor accepts the script text
Compiles(script) == \A j \in 1..Len(script) : script[j] \in Statements

RECURSIVE Scan(_)
RECURSIVE RunScript(_)

\* variant: the thread id is the one of the latest stopped event
ContinueArgsLatest(h) == handlers[Len(handlers)].threadId

\* continueArgs.threadId: the threadId local of this invocation
ContinueArgs(h) == h.threadId

\* variant: the error line is appended without the colour marker
ErrorLinePlain(e, script) ==
    <<"Scriptpoint exception \"", e, "\" executing: \"">> \o script \o <<"\"">>

\* the line the catch block appends for exception e of script
ErrorLine(e, script) ==
    <<"\\u001b[31m", "Scriptpoint exception \"", e, "\" executing: \"">>
    \o script \o <<"\"", "\\u001b[0m">>

\* executeScriptpoint has resolved: apply the resume policy, go on with the loop
Finish(h, success) ==
    LET sp == ScanList(h)[h.i]
        h1 == IF success THEN h
              ELSE [h EXCEPT !.trace = Append(@, Ev("error", sp.index, "exception"))]
        h2 == IF ShouldContinue(h, sp, success)
              THEN [h1 EXCEPT !.trace = Append(@, Ev("continue", ContinueArgs(h), ""))]
              ELSE h1
    IN  Scan([h2 EXCEPT !.i = @ + 1, !.k = 0,
                        !.results = Append(@, success)])

\* the script of scriptpoint i threw e: the catch block logs and resolves false
Fail(h, e) ==
    Finish([h EXCEPT !.console = Append(@, ErrorLine(e, ScanList(h)[h.i].script))], FALSE)

\* run the script of scriptpoint i from statement k to its next suspension
RunScript(h) ==
    LET script == ScanList(h)[h.i].script
    IN  IF ~Compiles(script) THEN Fail(h, "SyntaxError")
        ELSE IF h.k > Len(script) THEN Finish(h, TRUE)
        ELSE CASE script[h.k] = "H" ->
                    RunScript([h EXCEPT !.trace = Append(@, Ev("log", 0, "hit")),
                                        !.console = Append(@, <<"hit">>),
                                        !.k = @ + 1])
               [] script[h.k] = "C" ->
                    RunScript([h EXCEPT !.trace = Append(@, Ev("command", 0, "c")),
                                        !.k = @ + 1])
               [] script[h.k] = "T" -> Fail(h, "e")
               [] OTHER ->   \* evaluate, variables and memory start with an evaluate round trip
                    [h EXCEPT !.pc = "evaluate",
                              !.trace = Append(@, Ev("evaluate", h.frame.id, "x"))]

\* variant: the loop is entered only for a breakpoint stop that no step command preceded
ScanGated(h) ==
    LET list == ScanList(h)
    IN  IF h.i > Len(list) \/ h.stepped \/ ~ReasonIncludesBreakpoint(h.reason) THEN Done(h)
        ELSE IF list[h.i].breakpoint = Undefined
        THEN Scan([h EXCEPT !.i = @ + 1])
        ELSE IF ~Match(list[h.i].breakpoint[1], h.frame)
        THEN Scan([h EXCEPT !.i = @ + 1])
        ELSE RunScript([h EXCEPT !.k = 1,
                                 !.executed = Append(@, [index |-> list[h.i].index,
                                                         script |-> list[h.i].script,
                                                         stop |-> list[h.i].stop,
                                                         breakpoint |-> list[h.i].breakpoint[1],
                                                         stale |-> ~h.live]),
                                 !.trace = Append(@, Ev("execute", list[h.i].index, ""))])

\* the for-of loop over the scriptpoints from position i on
Scan(h) ==
    LET list == ScanList(h)
    IN  IF h.i > Len(list) THEN Done(h)
        ELSE IF list[h.i].breakpoint = Undefined
        THEN Scan([h EXCEPT !.i = @ + 1])
        ELSE IF ~Match(list[h.i].breakpoint[1], h.frame)
        THEN Scan([h EXCEPT !.i = @ + 1])
        ELSE RunScript([h EXCEPT !.k = 1,
                                 !.executed = Append(@, [index |-> list[h.i].index,
                                                         script |-> list[h.i].script,
                                                         stop |-> list[h.i].stop,
                                                         breakpoint |-> list[h.i].breakpoint[1],
                                                         stale |-> ~h.live]),
                                 !.trace = Append(@, Ev("execute", list[h.i].index, ""))])

\* variant: a stop for which no frame is reported is resumed
AfterStackTraceResumes(h, result) ==
    IF result.stackFrames = Undefined \/ Len(result.stackFrames[1]) = 0
    THEN Done([h EXCEPT !.trace = Append(@, Ev("continue", h.threadId, ""))])
    ELSE LET frame == result.stackFrames[1][1]
         IN  IF ~TruthyStr(frame.path) THEN Done(h)
             ELSE IF frame.path[1] \notin DOMAIN sources THEN Done([h EXCEPT !.frame = frame])
             ELSE Scan([h EXCEPT !.frame = frame, !.live = TRUE, !.i = 1])

\* the handler after its stackTrace request has resolved with result
AfterStackTrace(h, result) ==
    IF result.stackFrames = Undefined \/ Len(result.stackFrames[1]) = 0
    THEN Done(h)
    ELSE LET frame == result.stackFrames[1][1]
         IN  IF ~TruthyStr(frame.path) THEN Done(h)
             ELSE IF frame.path[1] \notin DOMAIN sources THEN Done([h EXCEPT !.frame = frame])
             ELSE Scan([h EXCEPT !.frame = frame, !.live = TRUE, !.i = 1])

----------------------------------------------------------------------------
(* The messages the front-end and the adapter can send *)

Desc(id, path, line, instructionReference) ==
    [id |-> id, path |-> path, line |-> line, endLine |-> Undefined,
     column |-> Undefined, endColumn |-> Undefined,
     instructionReference |-> instructionReference]

Frame(id, path, line, instructionPointerReference) ==
    [id |-> id, path |-> path, line |-> line, endLine |-> Undefined,
     column |-> Undefined, endColumn |-> Undefined,
     instructionPointerReference |-> instructionPointerReference]

\* source.path of a setBreakpoints request
RequestPaths == {Some("a.cpp"), Undefined}

\* one requested breakpoint with the given log message (a token sequence)
Tagged(text) == [line |-> 10, logMessage |-> Some(text)]

Untagged == [line |-> 10, logMessage |-> Undefined]

\* arguments.breakpoints of a setBreakpoints request
BreakpointArrays ==
    {<<>>,
     <<Tagged(<<"!", "E">>)>>,
     <<Untagged, Tagged(<<"!", "V">>)>>,
     <<Tagged(<<"!", "!", "M">>), Tagged(<<"!", "E">>)>>}

\* arguments.breakpoints may be absent
RequestBreakpoints == {Undefined} \cup {Some(b) : b \in BreakpointArrays}

\* the descriptors an adapter puts in a setBreakpoints response
ResponseDescriptors ==
    {Desc(Some(1), Some("a.cpp"), Some(10), Undefined),
     Desc(Some(2), Some("a.cpp"), Some(10), Undefined),
     Desc(Some(1), Undefined, Some(10), Undefined)}

\* body of the response to a request with n breakpoints; a failed request has none
ResponseBodies(n) ==
    {Undefined} \cup {Some(b) : b \in [1..n -> ResponseDescriptors]}

\* body.breakpoint of a breakpoint event
EventDescriptors ==
    {Desc(Some(1), Some("A.cpp"), Some(10), Undefined),
     Desc(Undefined, Some("a.cpp"), Some(10), Undefined)}

\* body of a stopped event
StoppedBodies ==
    [threadId : {Some(3), Undefined}, reason : {"breakpoint", "step"}]

\* what a stackTrace request resolves with
StackTraceResults ==
    {[stackFrames |-> Undefined], [stackFrames |-> Some(<<>>)]}
    \cup {[stackFrames |-> Some(<<Frame(7, p, Some(10), Undefined)>>)] :
            p \in {Some("a.cpp"), Some("A.cpp"), Undefined}}

\* what an evaluate request resolves with
EvaluateResults ==
    [result : {"r"}, variablesReference : {0, 1}, memoryReference : {"m"}]

\* commands of the front-end that resume the debuggee
ResumeCommands == {"continue", "next", "stepIn", "stepOut"}

\* arguments.threadId of a resume request
ResumeThreads == {3}

----------------------------------------------------------------------------
(* State after createDebugAdapterTracker *)

Init ==
    /\ sources = <<>>
    /\ idToSource = <<>>
    /\ step = FALSE
    /\ requests = <<>>
    /\ handlers = <<>>
    /\ raised = 0

----------------------------------------------------------------------------
(* onWillReceiveMessage *)

\* a handler whose loop iterates the array that source.scriptpoints = [] replaces
\* goes on iterating the replaced array
Detach(h, path) ==
    IF h.live /\ h.frame.path = path
    THEN [h EXCEPT !.live = FALSE, !.arr = sources[path[1]].scriptpoints]
    ELSE h

\* The record kept of a request: what the front-end sent, what the adapter
\* received, and the adapter's response once it has arrived.  The breakpoint
\* arrays are kept for the latest request and for the latest setBreakpoints
\* request of each path only; of a response the record keeps when it arrived
\* (sent: the number of requests sent by then, nth: its rank among the
\* responses) and, if a source was correlated with it, its body.
Request(command, path, breakpoints, forwarded) ==
    [command |-> command, path |-> path, threadId |-> Undefined,
     breakpoints |-> breakpoints, forwarded |-> forwarded, response |-> Undefined]

\* the records with the arrays of the requests that a new request for path supersedes dropped
Superseded(path) ==
    [s \in 1..Len(requests) |->
        IF requests[s].path = path \/ requests[s].path = Undefined
        THEN [requests[s] EXCEPT !.breakpoints = Undefined, !.forwarded = Undefined,
                                 !.response = IF @ = Undefined THEN @
                                              ELSE Some([@[1] EXCEPT !.body = Undefined])]
        ELSE requests[s]]

\* variant: the scriptpoints' log messages are cleared whether or not there is a path
ForwardedCleared(path, breakpoints) ==
    IF breakpoints = Undefined THEN breakpoints
    ELSE Some(ClearTagged(breakpoints[1]))

\* arguments.breakpoints as the adapter receives it: untouched if the request has
\* no path or no breakpoints, else with the scriptpoints' log messages cleared
Forwarded(path, breakpoints) ==
    IF ~TruthyStr(path) \/ breakpoints = Undefined THEN breakpoints
    ELSE Some(ClearTagged(breakpoints[1]))

\* request.command === 'setBreakpoints'; request.seq is Len(requests) + 1
SetBreakpoints(path, breakpoints) ==
    LET seq == Len(requests) + 1
    IN  IF ~TruthyStr(path)
        THEN /\ requests' = Append(Superseded(path),
                    Request("setBreakpoints", path, breakpoints,
                            Forwarded(path, breakpoints)))
             /\ UNCHANGED <<sources, idToSource, step, handlers, raised>>
        ELSE /\ sources' =
                 [p \in DOMAIN sources \cup {path[1]} |->
                     IF p = path[1]
                     THEN [setBreakpointsSeq |-> seq,
                           scriptpoints |-> IF breakpoints = Undefined THEN <<>>
                                            ELSE RewriteLoop(breakpoints[1], 1)]
                     ELSE sources[p]]
             /\ requests' = Append(Superseded(path),
                    Request("setBreakpoints", path, breakpoints,
                            Forwarded(path, breakpoints)))
             /\ handlers' = [n \in 1..Len(handlers) |-> Detach(handlers[n], path)]
             /\ UNCHANGED <<idToSource, step, raised>>

\* variant: only next sets the flag
IsStepCommandNextOnly(command) == command = "next"

\* ['next', 'stepIn', 'stepOut'].includes(request.command)
IsStepCommand(command) == command \in {"next", "stepIn", "stepOut"}

\* a request that resumes thread threadId; next, stepIn and stepOut set the step flag
ResumeRequest(command, threadId) ==
    /\ requests' = Append(Superseded(Undefined),
                          [Request(command, Undefined, Undefined, Undefined)
                              EXCEPT !.threadId = Some(threadId)])
    /\ step' = IF IsStepCommand(command) THEN TRUE ELSE step
    /\ UNCHANGED <<sources, idToSource, handlers, raised>>

----------------------------------------------------------------------------
(* onDidSendMessage *)

\* variant: the response is bound to every source, whatever its request_seq
CorrelatedAny(seq) == DOMAIN sources

\* variant: a response is bound to the source of the latest request
CorrelatedLatest(seq) ==
    {p \in DOMAIN sources : sources[p].setBreakpointsSeq = Len(requests)}

\* the sources whose setBreakpointsSeq equals the response's request_seq
Correlated(seq) == {p \in DOMAIN sources : sources[p].setBreakpointsSeq = seq}

\* the requests whose response has arrived
Answered == {s \in 1..Len(requests) : requests[s].response # Undefined}

\* message.type === 'response', with request_seq = seq and the given body
Response(seq, body) ==
    LET hit == Correlated(seq)
        arrival == [sent |-> Len(requests), nth |-> Cardinality(Answered) + 1]
    IN  IF hit = {}
        THEN /\ requests' = [requests EXCEPT ![seq].response =
                                Some([body |-> Undefined, correlated |-> FALSE,
                                      sent |-> arrival.sent, nth |-> arrival.nth])]
             /\ UNCHANGED <<sources, idToSource, step, handlers, raised>>
        ELSE LET p == CHOOSE q \in hit : TRUE
                 out == BindLoop([scriptpoints |-> sources[p].scriptpoints,
                                  ids |-> {}, threw |-> FALSE], 1, body)
             IN  /\ requests' = [requests EXCEPT ![seq].response =
                                    Some([body |-> body, correlated |-> TRUE,
                                          sent |-> arrival.sent, nth |-> arrival.nth])]
                 /\ sources' = [sources EXCEPT ![p].scriptpoints = out.scriptpoints]
                 /\ idToSource' = [i \in DOMAIN idToSource \cup out.ids |->
                                      IF i \in out.ids THEN p ELSE idToSource[i]]
                 /\ raised' = IF out.threw THEN raised + 1 ELSE raised
                 /\ UNCHANGED <<step, handlers>>

\* the command of the latest request of the front-end
LastCommand == IF requests = <<>> THEN "" ELSE requests[Len(requests)].command

\* event 'stopped': the synchronous part up to the stackTrace request
Stopped(body) ==
    /\ LET threadId == IF body.threadId = Undefined THEN 0 ELSE body.threadId[1]
       IN  handlers' = Append(handlers,
              [threadId |-> threadId, reason |-> body.reason, stepped |-> step,
               pc |-> "stackTrace", frame |-> Undefined, live |-> FALSE,
               arr |-> <<>>, i |-> 0, k |-> 0, executed |-> <<>>,
               after |-> LastCommand, sent |-> Len(requests), seen |-> Answered,
               event |-> body, console |-> <<>>,
               results |-> <<>>, crawls |-> <<>>,
               trace |-> <<Ev("stackTrace", threadId, "")>>])
    /\ step' = FALSE
    /\ UNCHANGED <<sources, idToSource, requests, raised>>

\* the stackTrace request of handler n is rejected: the catch block logs
StackTraceRejected(n) ==
    /\ n \in 1..Len(handlers)
    /\ handlers[n].pc = "stackTrace"
    /\ handlers' = [handlers EXCEPT ![n] = Done(@)]
    /\ UNCHANGED <<sources, idToSource, step, requests, raised>>

\* the stackTrace request of handler n resolves
StackTraceResolved(n, result) ==
    /\ n \in 1..Len(handlers)
    /\ handlers[n].pc = "stackTrace"
    /\ handlers' = [handlers EXCEPT ![n] = AfterStackTrace(@, result)]
    /\ UNCHANGED <<sources, idToSource, step, requests, raised>>

\* the variables the adapter reports for a variables reference
VariablesOf(variablesReference) ==
    CASE variablesReference = 1 ->
           <<[name |-> "a", value |-> "1", variablesReference |-> 0]>>
      [] variablesReference = 2 ->      \* a structure with a nested structure
           <<[name |-> "b", value |-> "2", variablesReference |-> 1],
             [name |-> "c", value |-> "3", variablesReference |-> 0]>>
      [] variablesReference = 3 ->      \* a container that contains itself
           <<[name |-> "self", value |-> "4", variablesReference |-> 3]>>
      [] OTHER -> <<>>

\* variableCrawl(variablesReference, indentLevel) up to its await: the call is
\* not awaited by its caller, which receives a promise and goes on
StartCrawl(h, variablesReference, indentLevel, owner) ==
    IF variablesReference > 0
    THEN [h EXCEPT !.crawls = Append(@, [variablesReference |-> variablesReference,
                                         indentLevel |-> indentLevel,
                                         owner |-> owner]),
                   !.trace = Append(@, Ev("variables", variablesReference, ""))]
    ELSE h

\* the forEach of variableCrawl over the variables from position j on
RECURSIVE CrawlEach(_, _, _, _, _)
CrawlEach(h, variables, j, indentLevel, owner) ==
    IF j > Len(variables) THEN h
    ELSE CrawlEach(StartCrawl(h, variables[j].variablesReference, indentLevel + 1, owner),
                   variables, j + 1, indentLevel, owner)

\* what variables(expression) returns: the expression line, then the promise of
\* the crawl converted to a string
VariablesText(expression, response) ==
    <<expression, ": ", response.result, "\n", "[object Promise]">>

\* the handler after the evaluate request of its running statement resolved
AfterEvaluate(h, response) ==
    LET statement == ScanList(h)[h.i].script[h.k]
    IN  CASE statement = "E" ->
               RunScript([h EXCEPT !.pc = "run", !.k = @ + 1,
                                   !.console = Append(@, <<response.result>>),
                                   !.trace = Append(@, Ev("log", 0, response.result))])
          [] statement = "V" ->
               LET crawling == StartCrawl(h, response.variablesReference, 1, Len(h.executed))
               IN  RunScript([crawling EXCEPT
                        !.pc = "run", !.k = @ + 1,
                        !.console = Append(@, VariablesText("x", response)),
                        !.trace = Append(@, Ev("log", 0, "x: r + [object Promise]"))])
          [] OTHER ->
               [h EXCEPT !.pc = "readMemory",
                         !.trace = Append(@, Ev("readMemory", 4, response.memoryReference))]

\* the evaluate request of handler n is rejected: the script's await throws
EvaluateRejected(n) ==
    /\ n \in 1..Len(handlers)
    /\ handlers[n].pc = "evaluate"
    /\ handlers' = [handlers EXCEPT ![n] =
          Fail([@ EXCEPT !.trace = Append(@, Ev("rejected", Len(handlers[n].executed),
                                                "evaluate"))], "rejected")]
    /\ UNCHANGED <<sources, idToSource, step, requests, raised>>

\* the evaluate request of handler n resolves
EvaluateResolved(n, response) ==
    /\ n \in 1..Len(handlers)
    /\ handlers[n].pc = "evaluate"
    /\ handlers' = [handlers EXCEPT ![n] = AfterEvaluate(@, response)]
    /\ UNCHANGED <<sources, idToSource, step, requests, raised>>

\* the readMemory request of handler n is rejected
ReadMemoryRejected(n) ==
    /\ n \in 1..Len(handlers)
    /\ handlers[n].pc = "readMemory"
    /\ handlers' = [handlers EXCEPT ![n] =
          Fail([@ EXCEPT !.trace = Append(@, Ev("rejected", Len(handlers[n].executed),
                                                "readMemory"))], "rejected")]
    /\ UNCHANGED <<sources, idToSource, step, requests, raised>>

\* the readMemory request of handler n resolves with its data
ReadMemoryResolved(n) ==
    /\ n \in 1..Len(handlers)
    /\ handlers[n].pc = "readMemory"
    /\ handlers' = [handlers EXCEPT ![n] =
          RunScript([@ EXCEPT !.pc = "run", !.k = @ + 1,
                              !.console = Append(@, <<"data">>),
                              !.trace = Append(@, Ev("log", 0, "data"))])]
    /\ UNCHANGED <<sources, idToSource, step, requests, raised>>

\* s without its element at position j
RemoveAt(s, j) == SubSeq(s, 1, j - 1) \o SubSeq(s, j + 1, Len(s))

\* a variables request of a crawl of handler n is rejected: nothing awaits the crawl
VariablesRejected(n, j) ==
    /\ n \in 1..Len(handlers)
    /\ j \in 1..Len(handlers[n].crawls)
    /\ handlers' = [handlers EXCEPT
          ![n].crawls = RemoveAt(@, j),
          ![n].trace = Append(@, Ev("rejected", handlers[n].crawls[j].owner, "variables"))]
    /\ UNCHANGED <<sources, idToSource, step, requests, raised>>

\* a variables request of a crawl of handler n resolves
VariablesResolved(n, j) ==
    /\ n \in 1..Len(handlers)
    /\ j \in 1..Len(handlers[n].crawls)
    /\ LET crawl == handlers[n].crawls[j]
       IN  handlers' = [handlers EXCEPT ![n] =
              CrawlEach([@ EXCEPT !.crawls = RemoveAt(@, j)],
                        VariablesOf(crawl.variablesReference), 1, crawl.indentLevel,
                        crawl.owner)]
    /\ UNCHANGED <<sources, idToSource, step, requests, raised>>

\* the loop of the breakpoint event: the first scriptpoint whose descriptor has the id
RECURSIVE UpdateFirst(_, _, _)
UpdateFirst(scriptpoints, i, breakpoint) ==
    IF i > Len(scriptpoints) THEN scriptpoints
    ELSE IF scriptpoints[i].breakpoint # Undefined
            /\ scriptpoints[i].breakpoint[1].id = breakpoint.id
    THEN [scriptpoints EXCEPT ![i].breakpoint = Some(breakpoint)]
    ELSE UpdateFirst(scriptpoints, i + 1, breakpoint)

\* the source the breakpoint event resolves to, if any
EventSource(breakpoint) ==
    IF TruthyNum(breakpoint.id)
    THEN IF breakpoint.id[1] \in DOMAIN idToSource
         THEN Some(idToSource[breakpoint.id[1]]) ELSE Undefined
    ELSE IF breakpoint.path[1] \in DOMAIN sources
         THEN Some(breakpoint.path[1]) ELSE Undefined

\* the sources map as the handler of a breakpoint event leaves it
AfterEvent(breakpoint) ==
    IF ~TruthyStr(breakpoint.path) \/ ~TruthyNum(breakpoint.id)
    THEN sources
    ELSE LET source == EventSource(breakpoint)
         IN  IF source = Undefined THEN sources
             ELSE [sources EXCEPT ![source[1]].scriptpoints =
                      UpdateFirst(@, 1, breakpoint)]

\* event 'breakpoint'
BreakpointEvent(breakpoint) ==
    /\ sources' = AfterEvent(breakpoint)
    /\ UNCHANGED <<idToSource, step, requests, handlers, raised>>

----------------------------------------------------------------------------

\* the front-end sends at most MaxSeq requests, the debuggee stops at most MaxStops times
Next ==
    \/ /\ Len(requests) < MaxSeq
       /\ \E path \in RequestPaths, breakpoints \in RequestBreakpoints :
             SetBreakpoints(path, breakpoints)
    \/ /\ Len(requests) < MaxSeq
       /\ \E command \in ResumeCommands, threadId \in ResumeThreads :
             ResumeRequest(command, threadId)
    \/ \E seq \in 1..Len(requests) :
          /\ requests[seq].command = "setBreakpoints"
          /\ requests[seq].response = Undefined
          /\ \E body \in ResponseBodies(IF requests[seq].breakpoints = Undefined THEN 0
                                        ELSE Len(requests[seq].breakpoints[1])) :
                Response(seq, body)
    \/ /\ Len(handlers) < MaxStops
       /\ \E body \in StoppedBodies : Stopped(body)
    \/ \E n \in 1..Len(handlers) : StackTraceRejected(n)
    \/ \E n \in 1..Len(handlers), result \in StackTraceResults : StackTraceResolved(n, result)
    \/ \E n \in 1..Len(handlers) : EvaluateRejected(n)
    \/ \E n \in 1..Len(handlers), response \in EvaluateResults : EvaluateResolved(n, response)
    \/ \E n \in 1..Len(handlers) : ReadMemoryRejected(n)
    \/ \E n \in 1..Len(handlers) : ReadMemoryResolved(n)
    \/ \E n \in 1..Len(handlers) : \E j \in 1..Len(handlers[n].crawls) : VariablesRejected(n, j)
    \/ \E n \in 1..Len(handlers) : \E j \in 1..Len(handlers[n].crawls) : VariablesResolved(n, j)
    \/ \E breakpoint \in EventDescriptors : BreakpointEvent(breakpoint)

Spec == Init /\ [][Next]_vars

----------------------------------------------------------------------------
(* Properties of the tracker, checked under Spec *)

Handlers == {handlers[n] : n \in 1..Len(handlers)}

\* the trace of h holds an entry with operation op
Did(h, op) == \E t \in 1..Len(h.trace) : h.trace[t].op = op

\* h has sent a continue request for its own thread
Continued(h) == \E t \in 1..Len(h.trace) : h.trace[t] = Ev("continue", h.threadId, "")

StepCommands == {"next", "stepIn", "stepOut"}

\* C1: for a stopped event whose top frame matched a scriptpoint, once the
\* script has finished a continue request for the stop's thread has been issued
\* if and only if the script succeeded, the scriptpoint's stop flag is false,
\* the stop was not attributed to a step and the reason is a breakpoint hit.
C1_ContinueIffAllFour ==
    \A h \in Handlers :
        h.pc = "done" =>
            \A j \in 1..Len(h.executed) :
                Continued(h) <=> /\ h.results[j]
                                 /\ ~h.executed[j].stop
                                 /\ ~h.stepped
                                 /\ h.reason = "breakpoint"

\* C1 restricted to stops for which exactly one scriptpoint matched
C1_SingleMatch ==
    \A h \in Handlers :
        (h.pc = "done" /\ Len(h.executed) = 1) =>
            (Continued(h) <=> /\ h.results[1]
                              /\ ~h.executed[1].stop
                              /\ ~h.stepped
                              /\ h.reason = "breakpoint")

\* the frame of the scenarios: {id: 7, line: 10, source: {path: "a.cpp"}}
ScenarioFrame == Frame(7, Some("a.cpp"), Some(10), Undefined)

\* a.cpp's latest request has the one entry "!log(await evaluate('x'))", its
\* response the one descriptor d, and the scriptpoint still has that descriptor
ScenarioSetup(d) ==
    /\ \E s \in 1..Len(requests) :
          /\ requests[s].command = "setBreakpoints"
          /\ requests[s].path = Some("a.cpp")
          /\ requests[s].breakpoints = Some(<<Tagged(<<"!", "E">>)>>)
          /\ requests[s].response # Undefined
          /\ requests[s].response[1].body = Some(<<d>>)
    /\ "a.cpp" \in DOMAIN sources
    /\ sources["a.cpp"].scriptpoints =
          <<[index |-> 0, script |-> <<"E">>, stop |-> FALSE, breakpoint |-> Some(d)]>>

\* The scenario for descriptor d, as a property of every step: the stack trace
\* of a stop on thread 3 with reason "breakpoint", not attributed to a step,
\* resolving with ScenarioFrame sends evaluate('x') for the frame's id; that
\* request resolving appends its result via log and then sends continue for
\* thread 3.
ScenarioStep(d) ==
    \A n \in 1..Len(handlers) :
        LET h == handlers[n]
            g == handlers'[n]
            started == <<Ev("stackTrace", 3, ""), Ev("execute", 0, ""),
                         Ev("evaluate", 7, "x")>>
        IN  /\ (/\ ScenarioSetup(d)
                /\ h.pc = "stackTrace" /\ h.threadId = 3 /\ h.reason = "breakpoint"
                /\ ~h.stepped
                /\ g.frame = ScenarioFrame)
               => (g.pc = "evaluate" /\ g.trace = started)
            /\ (/\ h.pc = "evaluate" /\ h.trace = started /\ ~h.stepped
                /\ h.reason = "breakpoint"
                /\ Len(h.executed) = 1 /\ h.executed[1].breakpoint = d
                /\ h.executed[1].script = <<"E">> /\ ~h.executed[1].stop
                /\ g.results = <<TRUE>>)
               => (g.pc = "done"
                   /\ g.trace = started \o <<Ev("log", 0, "r"), Ev("continue", 3, "")>>)

\* C2 as stated: the scenario with the descriptor {id: 1, line: 10, verified:
\* true}, which has no source.
C2_ScenarioWithoutSource ==
    [][ScenarioStep(Desc(Some(1), Undefined, Some(10), Undefined))]_vars

\* C2 amended: the scenario with the descriptor {id: 1, line: 10, verified:
\* true, source: {path: "a.cpp"}}: the stop sends evaluate('x') scoped to the
\* frame's id, and when that resolves the result is logged and continue is sent
\* for thread 3.
C2_ScenarioWithSource ==
    [][ScenarioStep(Desc(Some(1), Some("a.cpp"), Some(10), Undefined))]_vars

\* the scenario has run to its end
C2_Witness ==
    /\ ScenarioSetup(Desc(Some(1), Some("a.cpp"), Some(10), Undefined))
    /\ \E h \in Handlers :
          /\ h.pc = "done" /\ h.frame = ScenarioFrame /\ h.threadId = 3
          /\ h.trace = <<Ev("stackTrace", 3, ""), Ev("execute", 0, ""),
                         Ev("evaluate", 7, "x"), Ev("log", 0, "r"),
                         Ev("continue", 3, "")>>

C4_FailureNoContinue ==
    \A h \in Handlers :
        \A t \in 1..Len(h.trace) :
            h.trace[t].op = "rejected" =>
                /\ ~Did(h, "continue")
                /\ Len(h.results) >= h.trace[t].num => ~h.results[h.trace[t].num]

\* the entries of a request's breakpoint array that are scriptpoints (1-based)
TaggedEntries(request) ==
    IF request.breakpoints = Undefined THEN {}
    ELSE {i \in 1..Len(request.breakpoints[1]) :
            /\ request.breakpoints[1][i].logMessage # Undefined
            /\ request.breakpoints[1][i].logMessage[1] # <<>>
            /\ Head(request.breakpoints[1][i].logMessage[1]) = "!"}

\* the descriptor of a response at a request index, undefined if it has none
DescriptorAt(response, index) ==
    IF response.body = Undefined THEN Undefined
    ELSE IF index + 1 > Len(response.body[1]) THEN Undefined
    ELSE Some(response.body[1][index + 1])

\* descriptor b is what a later breakpoint event made of the bound descriptor e
UpdatedByEvent(b, e) ==
    /\ b # Undefined /\ e # Undefined
    /\ b[1] \in EventDescriptors
    /\ b[1].id = e[1].id

\* both are setBreakpoints requests for the same path, r1 answered after r2 was sent
Overtaken(s1, s2) ==
    /\ s1 < s2
    /\ requests[s1].command = "setBreakpoints"
    /\ requests[s2].command = "setBreakpoints"
    /\ requests[s1].path # Undefined
    /\ requests[s1].path = requests[s2].path
    /\ \A s \in (s2 + 1)..Len(requests) : requests[s].path # requests[s2].path
    /\ requests[s1].response # Undefined
    /\ requests[s2].response # Undefined
    /\ requests[s1].response[1].sent >= s2

\* C5: with R1 and R2 sent for one path before R1's response arrives, once both
\* responses are processed (in either order) the path's scriptpoints are R2's
\* tagged entries, each bound to the descriptor at its index in R2's response
\* (or to what a later breakpoint event made of it), and a stop that arrives
\* afterwards executes R2's scriptpoints only.
C5_SupersededResponseIgnored ==
    \A s1, s2 \in 1..Len(requests) :
        Overtaken(s1, s2) =>
            LET sps == sources[requests[s2].path[1]].scriptpoints
                r2 == requests[s2]
            IN  /\ Len(sps) = Cardinality(TaggedEntries(r2))
                /\ \A i \in 1..Len(sps) :
                      /\ sps[i].index + 1 \in TaggedEntries(r2)
                      /\ i > 1 => sps[i - 1].index < sps[i].index
                      /\ \/ sps[i].breakpoint = DescriptorAt(r2.response[1], sps[i].index)
                         \/ UpdatedByEvent(sps[i].breakpoint,
                                           DescriptorAt(r2.response[1], sps[i].index))
                /\ \A h \in Handlers :
                      {s1, s2} \subseteq h.seen =>
                          \A j \in 1..Len(h.executed) :
                              /\ ~h.executed[j].stale
                              /\ \E i \in 1..Len(sps) :
                                    /\ sps[i].index = h.executed[j].index
                                    /\ sps[i].script = h.executed[j].script
                                    /\ sps[i].stop = h.executed[j].stop

\* R1's response arrived after R2's, R2's scriptpoints are bound
C5_Witness ==
    \E s1, s2 \in 1..Len(requests) :
        /\ Overtaken(s1, s2)
        /\ requests[s1].response[1].nth > requests[s2].response[1].nth
        /\ \E i \in 1..Len(sources[requests[s2].path[1]].scriptpoints) :
              sources[requests[s2].path[1]].scriptpoints[i].breakpoint # Undefined

\* C6: no scriptpoint of an array that a later setBreakpoints request for the
\* path has replaced is matched after the rewrite.
C6_NoStaleMatch ==
    \A h \in Handlers : \A j \in 1..Len(h.executed) : ~h.executed[j].stale

\* C7: handling one stopped event executes at most one scriptpoint's script.
C7_AtMostOneScript ==
    \A h \in Handlers : Len(h.executed) <= 1

\* the descriptor a breakpoint event delivered for id 1: the path differs in case
CaseChanged == Desc(Some(1), Some("A.cpp"), Some(10), Undefined)

\* C8: once a breakpoint event has replaced a scriptpoint's descriptor by one
\* whose path differs only in letter case, a stop whose top frame is at the
\* scriptpoint's location under the requested path still runs its script.
C8_MatchAfterCaseChange ==
    [][\A n \in 1..Len(handlers) :
          (/\ handlers[n].pc = "stackTrace"
           /\ handlers'[n].frame = ScenarioFrame
           /\ 1 \in DOMAIN idToSource
           /\ \E i \in 1..Len(sources["a.cpp"].scriptpoints) :
                 sources["a.cpp"].scriptpoints[i].breakpoint = Some(CaseChanged))
          => \E j \in 1..Len(handlers'[n].executed) :
                 handlers'[n].executed[j].breakpoint = CaseChanged]_vars

----------------------------------------------------------------------------
(* The match computation on its own: a source with one bound scriptpoint    *)
(* and a stopped-event handler awaiting its stack trace, for every          *)
(* descriptor and every top frame of MatchDescriptors and MatchFrames.      *)
(* A frame always has a line (StackFrame.line is required), and the scan is *)
(* reached only with a frame that has a source path.                        *)

MatchDescriptors ==
    [id : {Some(1)},
     path : {Undefined, Some("a.cpp"), Some("A.cpp")},
     line : {Undefined, Some(10), Some(11)},
     endLine : {Undefined, Some(10)},
     column : {Undefined, Some(1)},
     endColumn : {Undefined, Some(5)},
     instructionReference : {Undefined, Some("0x10"), Some("0x20")}]

MatchFrames ==
    [id : {7},
     path : {Some("a.cpp"), Some("A.cpp")},
     line : {Some(10), Some(11)},
     endLine : {Undefined, Some(10)},
     column : {Undefined, Some(1)},
     endColumn : {Undefined, Some(5)},
     instructionPointerReference : {Undefined, Some("0x10"), Some("0x20")}]

InitMatch ==
    /\ \E d \in MatchDescriptors :
          sources = [p \in {"a.cpp"} |->
                       [setBreakpointsSeq |-> 1,
                        scriptpoints |-> <<[Scriptpoint(0, <<"H">>, FALSE)
                                              EXCEPT !.breakpoint = Some(d)]>>]]
    /\ idToSource = [i \in {1} |-> "a.cpp"]
    /\ step = FALSE
    /\ requests = <<[Request("setBreakpoints", Some("a.cpp"), Some(<<Tagged(<<"!", "H">>)>>),
                              Some(<<Untagged>>))
                        EXCEPT !.response = Some([body |-> Undefined, correlated |-> TRUE,
                                                  sent |-> 1, nth |-> 1])]>>
    /\ handlers = <<[threadId |-> 3, reason |-> "breakpoint", stepped |-> FALSE,
                     pc |-> "stackTrace", frame |-> Undefined, live |-> FALSE,
                     arr |-> <<>>, i |-> 0, k |-> 0, executed |-> <<>>,
                     after |-> "setBreakpoints", sent |-> 1, seen |-> {1},
                     event |-> [threadId |-> Some(3), reason |-> "breakpoint"],
                     console |-> <<>>,
                     results |-> <<>>, crawls |-> <<>>,
                     trace |-> <<Ev("stackTrace", 3, "")>>]>>
    /\ raised = 0

NextMatch ==
    \E frame \in MatchFrames :
        StackTraceResolved(1, [stackFrames |-> Some(<<frame>>)])

SpecMatch == InitMatch /\ [][NextMatch]_vars

\* the descriptor and the frame the scan of the handler has compared, if it has
Compared == handlers[1].pc = "done" /\ handlers[1].frame # Undefined
            /\ handlers[1].frame.path[1] \in DOMAIN sources

TheDescriptor == sources["a.cpp"].scriptpoints[1].breakpoint[1]

Matched == Len(handlers[1].executed) = 1

\* C9: when the descriptor carries an instruction reference, the scriptpoint
\* matches exactly when that reference equals the frame's instruction pointer
\* reference, whatever the source locations of descriptor and frame are.
C9_InstructionReferenceDecides ==
    (Compared /\ TheDescriptor.instructionReference # Undefined) =>
        (Matched <=> TheDescriptor.instructionReference
                        = handlers[1].frame.instructionPointerReference)

\* equal references match although the line differs
C9_Witness ==
    /\ Compared /\ Matched
    /\ TheDescriptor.instructionReference # Undefined
    /\ TheDescriptor.line # handlers[1].frame.line

\* unequal references do not match although path, line and columns are equal
C9_WitnessUnequal ==
    /\ Compared /\ ~Matched
    /\ TheDescriptor.instructionReference # Undefined
    /\ TheDescriptor.path = handlers[1].frame.path
    /\ TheDescriptor.line = handlers[1].frame.line
    /\ TheDescriptor.endLine = handlers[1].frame.endLine
    /\ TheDescriptor.column = handlers[1].frame.column
    /\ TheDescriptor.endColumn = handlers[1].frame.endColumn

----------------------------------------------------------------------------
(* The rewrite of a setBreakpoints request on its own: the tracker right    *)
(* after its creation receives requests whose breakpoint arrays are drawn   *)
(* from every array of at most MaxEntries entries over RewriteMessages.     *)

\* number of setBreakpoints requests
MaxRewrites == 1
\* number of entries of a breakpoint array
MaxEntries == 2

\* logMessage of a requested breakpoint: absent, "", "p", " !H", "!", "!!",
\* "!  H", "!!H", "! !H", "!H\nE", "!\nH"
RewriteMessages ==
    {Undefined, Some(<<>>), Some(<<"p">>), Some(<<" ", "!", "H">>),
     Some(<<"!">>), Some(<<"!", "!">>), Some(<<"!", " ", " ", "H">>),
     Some(<<"!", "!", "H">>), Some(<<"!", " ", "!", "H">>),
     Some(<<"!", "H", "\n", "E">>), Some(<<"!", "\n", "H">>)}

RewriteEntries == [line : {10}, logMessage : RewriteMessages]

RewriteBreakpoints ==
    {Undefined} \cup
    {Some(b) : b \in UNION {[1..n -> RewriteEntries] : n \in 0..MaxEntries}}

\* source.path of the request: a path, none, or the empty string
RewritePaths == {Some("a.cpp"), Undefined, Some("")}

NextRewrite ==
    /\ Len(requests) < MaxRewrites
    /\ \E path \in RewritePaths, breakpoints \in RewriteBreakpoints :
          SetBreakpoints(path, breakpoints)

SpecRewrite == Init /\ [][NextRewrite]_vars

\* the setBreakpoints requests with a source path and a breakpoint array
Rewritten ==
    {s \in 1..Len(requests) :
        /\ requests[s].command = "setBreakpoints"
        /\ requests[s].path # Undefined /\ requests[s].path # Some("")
        /\ requests[s].breakpoints # Undefined}

\* the log message is non-empty and starts with '!'
StartsWithMarker(logMessage) ==
    logMessage # Undefined /\ logMessage[1] # <<>> /\ Head(logMessage[1]) = "!"

\* C11: rewriting a setBreakpoints request that has a source path clears the log
\* message of exactly the entries whose log message is non-empty and starts
\* with '!'; every other entry, and the number, order and other fields of all
\* entries, reach the adapter unchanged.
C11_ClearsExactlyTagged ==
    \A s \in Rewritten :
        LET sent == requests[s].breakpoints[1]
            received == requests[s].forwarded
        IN  /\ received # Undefined
            /\ Len(received[1]) = Len(sent)
            /\ \A i \in 1..Len(sent) :
                  /\ received[1][i].line = sent[i].line
                  /\ received[1][i].logMessage =
                        IF StartsWithMarker(sent[i].logMessage) THEN Undefined
                        ELSE sent[i].logMessage

\* a request with a tagged entry, cleared, after an ordinary log point, kept
C11_Witness ==
    \E s \in Rewritten :
        /\ requests[s].breakpoints[1] =
              <<[line |-> 10, logMessage |-> Some(<<"p">>)],
                [line |-> 10, logMessage |-> Some(<<"!", "!", "H">>)]>>
        /\ requests[s].forwarded[1] =
              <<[line |-> 10, logMessage |-> Some(<<"p">>)],
                [line |-> 10, logMessage |-> Undefined]>>

\* the text of msg after its one or two leading '!' and the white space that follows
Remainder(msg) ==
    LET marker == IF Len(msg) > 1 /\ msg[2] = "!" THEN 2 ELSE 1
    IN  SubSeq(msg, SkipWhiteSpace(msg, marker + 1), Len(msg))

\* the scriptpoint registered for entry i of request s, if any
RegisteredFor(s, i) ==
    LET sps == sources[requests[s].path[1]].scriptpoints
    IN  {sps[j] : j \in {k \in 1..Len(sps) : sps[k].index = i - 1}}

\* the requests with path and array that are the latest of their path
LatestRewritten ==
    {s \in Rewritten : sources[requests[s].path[1]].setBreakpointsSeq = s}

\* C12: for every log message of one or two leading '!', optional white space
\* and a script text, the registered scriptpoint has stop = (second character
\* is '!') and as script the whole remainder after marker and white space, also
\* when the remainder spans several lines.
C12_ScriptIsRemainder ==
    \A s \in LatestRewritten :
        \A i \in 1..Len(requests[s].breakpoints[1]) :
            LET logMessage == requests[s].breakpoints[1][i].logMessage
            IN  StartsWithMarker(logMessage) =>
                    \E sp \in RegisteredFor(s, i) :
                        /\ sp.stop = (Len(logMessage[1]) > 1 /\ logMessage[1][2] = "!")
                        /\ sp.script = Remainder(logMessage[1])

\* C12 for the messages whose remainder holds no line terminator
C12_SingleLine ==
    \A s \in LatestRewritten :
        \A i \in 1..Len(requests[s].breakpoints[1]) :
            LET logMessage == requests[s].breakpoints[1][i].logMessage
            IN  (/\ StartsWithMarker(logMessage)
                 /\ \A j \in 1..Len(Remainder(logMessage[1])) :
                       Remainder(logMessage[1])[j] \notin LineTerminators) =>
                    \E sp \in RegisteredFor(s, i) :
                        /\ sp.stop = (Len(logMessage[1]) > 1 /\ logMessage[1][2] = "!")
                        /\ sp.script = Remainder(logMessage[1])

----------------------------------------------------------------------------
(* The registry on its own: setBreakpoints requests for two paths, their    *)
(* responses and breakpoint events, without stops.  The adapter answers a   *)
(* request with descriptors that carry the request's path; it may answer a  *)
(* request more than once.                                                  *)

\* number of responses whose handling ends in a TypeError
MaxRaised == 1

RegistryPaths == {Some("a.cpp"), Some("b.cpp"), Undefined}

\* the descriptors of a response to a request for path: with id 1, with id 0
RegistryDescriptors(path) ==
    {Desc(Some(1), path, Some(10), Undefined), Desc(Some(0), path, Some(10), Undefined)}

\* the bodies the adapter may answer request seq with
RegistryBodies(seq) ==
    LET n == IF requests[seq].breakpoints = Undefined THEN 0
             ELSE Len(requests[seq].breakpoints[1])
    IN  {Undefined} \cup
        {Some(b) : b \in [1..n -> RegistryDescriptors(requests[seq].path)]}

\* body.breakpoint of a breakpoint event: the breakpoint has moved to line 12
RegistryEvents ==
    {Desc(Some(1), Some("a.cpp"), Some(12), Undefined),
     Desc(Some(1), Undefined, Some(12), Undefined),
     Desc(Some(0), Some("a.cpp"), Some(12), Undefined),
     Desc(Undefined, Some("a.cpp"), Some(12), Undefined),
     Desc(Some(9), Some("c.cpp"), Some(12), Undefined)}

NextRegistry ==
    \/ /\ Len(requests) < MaxSeq
       /\ \E path \in RegistryPaths, breakpoints \in RequestBreakpoints :
             SetBreakpoints(path, breakpoints)
    \/ /\ raised < MaxRaised
       /\ \E seq \in 1..Len(requests) : \E body \in RegistryBodies(seq) :
             Response(seq, body)
    \/ \E breakpoint \in RegistryEvents : BreakpointEvent(breakpoint)

SpecRegistry == Init /\ [][NextRegistry]_vars

\* the latest request
LastRequest == requests[Len(requests)]

\* C13: a setBreakpoints request whose source carries no path reaches the
\* adapter unmodified (tagged log messages are not cleared) and leaves both
\* maps, every setBreakpointsSeq and every scriptpoint list as they were.
C13_NoPathUntouched ==
    [][(/\ Len(requests') = Len(requests) + 1
        /\ LastRequest'.command = "setBreakpoints"
        /\ LastRequest'.path = Undefined)
       => (/\ LastRequest'.forwarded = LastRequest'.breakpoints
           /\ sources' = sources
           /\ idToSource' = idToSource)]_vars

\* a request without path and with tagged entries has passed a tracker whose
\* registry holds a bound scriptpoint
C13_Witness ==
    /\ requests # <<>>
    /\ LastRequest.command = "setBreakpoints"
    /\ LastRequest.path = Undefined
    /\ TaggedEntries(LastRequest) # {}
    /\ LastRequest.forwarded = LastRequest.breakpoints
    /\ idToSource # <<>>
    /\ \E p \in DOMAIN sources : \E i \in 1..Len(sources[p].scriptpoints) :
          sources[p].scriptpoints[i].breakpoint # Undefined

\* this step is the arrival of a response to request seq
Answering(seq) ==
    /\ Len(requests') = Len(requests)
    /\ requests'[seq].response # requests[seq].response

\* C14: a response whose request_seq equals a source's setBreakpointsSeq gives
\* every scriptpoint of that source the element of the response's array at the
\* scriptpoint's index, the index being the position of its entry in the
\* request's array with the untagged entries counted; every source with
\* another setBreakpointsSeq is left as it was.
C14_BoundByIndex ==
    [][\A seq \in 1..Len(requests) :
          Answering(seq) =>
              LET body == requests'[seq].response[1].body
              IN  \A p \in DOMAIN sources :
                      IF sources[p].setBreakpointsSeq # seq
                      THEN sources'[p] = sources[p]
                      ELSE body # Undefined =>
                             /\ sources'[p].setBreakpointsSeq = seq
                             /\ Len(sources'[p].scriptpoints) = Len(sources[p].scriptpoints)
                             /\ \A i \in 1..Len(sources[p].scriptpoints) :
                                   LET sp == sources[p].scriptpoints[i]
                                   IN  /\ sp.index + 1 \in TaggedEntries(requests[seq])
                                       /\ sources'[p].scriptpoints[i] =
                                             [sp EXCEPT !.breakpoint =
                                                 Some(body[1][sp.index + 1])]]_vars

\* the scriptpoint of the second entry, after an untagged first one, is bound to
\* the second descriptor, which differs from the first
C14_Witness ==
    \E s \in 1..Len(requests) :
        /\ requests[s].breakpoints = Some(<<Untagged, Tagged(<<"!", "V">>)>>)
        /\ requests[s].path = Some("a.cpp")
        /\ requests[s].response # Undefined
        /\ requests[s].response[1].body # Undefined
        /\ requests[s].response[1].body[1][1] # requests[s].response[1].body[1][2]
        /\ Len(sources["a.cpp"].scriptpoints) = 1
        /\ sources["a.cpp"].scriptpoints[1].index = 1
        /\ sources["a.cpp"].scriptpoints[1].breakpoint =
              Some(requests[s].response[1].body[1][2])

\* C15: once a response has been correlated with a source, a later response
\* with the same request_seq changes neither the source's descriptors nor
\* idToSource.
C15_ConsumedOnce ==
    [][\A seq \in 1..Len(requests) :
          (/\ Answering(seq)
           /\ requests[seq].response # Undefined
           /\ requests[seq].response[1].correlated)
          => (sources' = sources /\ idToSource' = idToSource)]_vars

\* request s is the latest setBreakpoints request of its path and has been
\* answered with a body
BoundRequest(s) ==
    /\ requests[s].command = "setBreakpoints"
    /\ requests[s].path # Undefined
    /\ sources[requests[s].path[1]].setBreakpointsSeq = s
    /\ requests[s].response # Undefined
    /\ requests[s].response[1].body # Undefined

\* every scriptpoint of the source of request s has the descriptor at its index
\* in the response to s, or what a breakpoint event for that id made of it
BoundToOwn(s) ==
    LET sps == sources[requests[s].path[1]].scriptpoints
    IN  \A i \in 1..Len(sps) :
            LET own == DescriptorAt(requests[s].response[1], sps[i].index)
            IN  /\ own # Undefined
                /\ sps[i].breakpoint # Undefined
                /\ \/ sps[i].breakpoint = own
                   \/ /\ sps[i].breakpoint[1] \in RegistryEvents
                      /\ sps[i].breakpoint[1].id = own[1].id

\* C16: with requests outstanding for two different paths, each source's
\* scriptpoints end up bound to the descriptors of the response to its own
\* request, whichever response arrives first; a response whose request_seq
\* equals no source's setBreakpointsSeq changes nothing.
C16_BoundToOwnResponse ==
    /\ [](\A s1, s2 \in 1..Len(requests) :
            (/\ BoundRequest(s1) /\ BoundRequest(s2)
             /\ requests[s1].path # requests[s2].path)
            => (BoundToOwn(s1) /\ BoundToOwn(s2)))
    /\ [][\A seq \in 1..Len(requests) :
            (/\ Answering(seq)
             /\ \A p \in DOMAIN sources : sources[p].setBreakpointsSeq # seq)
            => (sources' = sources /\ idToSource' = idToSource)]_vars

\* the response to the later request arrived first, and both sources are bound
C16_Witness ==
    \E s1, s2 \in 1..Len(requests) :
        /\ s1 < s2
        /\ BoundRequest(s1) /\ BoundRequest(s2)
        /\ requests[s1].path = Some("a.cpp") /\ requests[s2].path = Some("b.cpp")
        /\ requests[s1].response[1].sent = 2
        /\ requests[s2].response[1].nth < requests[s1].response[1].nth
        /\ sources["a.cpp"].scriptpoints # <<>>
        /\ sources["b.cpp"].scriptpoints # <<>>
        /\ BoundToOwn(s1) /\ BoundToOwn(s2)

\* the id of the event's breakpoint is a key of idToSource
RegisteredId(breakpoint) ==
    TruthyNum(breakpoint.id) /\ breakpoint.id[1] \in DOMAIN idToSource

\* the positions of the scriptpoints of source p whose descriptor has the id
Holders(p, id) ==
    {i \in 1..Len(sources[p].scriptpoints) :
        /\ sources[p].scriptpoints[i].breakpoint # Undefined
        /\ sources[p].scriptpoints[i].breakpoint[1].id = id}

\* the effect C17 states for the events of the set events
EventReplacesOne(events) ==
    \A e \in events :
        /\ RegisteredId(e) =>
              LET p == idToSource[e.id[1]]
              IN  Holders(p, e.id) # {} =>
                      \E i \in Holders(p, e.id) :
                          AfterEvent(e) =
                              [sources EXCEPT ![p].scriptpoints[i].breakpoint = Some(e)]
        /\ (/\ ~RegisteredId(e)
            /\ (e.path = Undefined \/ e.path[1] \notin DOMAIN sources))
           => AfterEvent(e) = sources

\* a step in which a breakpoint event replaces a descriptor leaves idToSource
EventKeepsIds ==
    (/\ sources' # sources
     /\ \E e \in RegistryEvents : sources' = AfterEvent(e))
    => idToSource' = idToSource

\* C17: a breakpoint event whose id is registered in idToSource replaces the
\* descriptor of exactly one scriptpoint of the owning source, one whose
\* descriptor has that id, and leaves every other scriptpoint, every
\* setBreakpointsSeq and both maps unchanged; an event whose id and path are
\* both unknown changes nothing.
C17_EventReplacesOne ==
    []EventReplacesOne(RegistryEvents) /\ [][EventKeepsIds]_vars

\* C17 for the events that carry a source path
C17_WithPath ==
    []EventReplacesOne({e \in RegistryEvents : TruthyStr(e.path)})
    /\ [][EventKeepsIds]_vars

\* C18: a breakpoint event that idToSource does not resolve (no id, or an id
\* that is not registered) but whose path is a key of sources is resolved by
\* path: the scriptpoint of that source whose descriptor id equals the event's
\* id gets the updated descriptor.
C18_ResolvedByPath ==
    \A e \in RegistryEvents :
        (/\ ~RegisteredId(e)
         /\ TruthyStr(e.path)
         /\ e.path[1] \in DOMAIN sources)
        => (Holders(e.path[1], e.id) # {} =>
               \E i \in Holders(e.path[1], e.id) :
                   AfterEvent(e)[e.path[1]].scriptpoints[i].breakpoint = Some(e))

----------------------------------------------------------------------------
(* The step flag, checked under Spec *)

\* the command of the latest resume request of the front-end, "" if there is none
RECURSIVE LastResume(_)
LastResume(n) ==
    IF n = 0 THEN ""
    ELSE IF requests[n].command \in ResumeCommands THEN requests[n].command
    ELSE LastResume(n - 1)

\* C19: at a stopped event the stop is attributed to a step exactly when the
\* latest resume request sent before it (continue, next, stepIn or stepOut)
\* was next, stepIn or stepOut, so a step followed by a continue does not
\* make the stop step-attributed; after the event has read the flag it is false.
C19_StepAttribution ==
    [][Len(handlers') = Len(handlers) + 1 =>
          /\ handlers'[Len(handlers')].stepped
                <=> LastResume(Len(requests)) \in StepCommands
          /\ step' = FALSE]_vars

----------------------------------------------------------------------------
(* Stops of two threads: a tracker whose source a.cpp has one bound,        *)
(* non-stopping scriptpoint receives resume requests for the threads of     *)
(* Threads and stopped events of these threads.                             *)

\* number of resume requests
MaxResumes == 2
\* number of stopped events
MaxThreadStops == 2

Threads == {3, 4}

\* body of a stopped event: of one of the threads, or without threadId
ThreadStops ==
    [threadId : {Some(t) : t \in Threads} \cup {Undefined},
     reason : {"breakpoint", "step"}]

\* the top frame is at the scriptpoint, or in a file without scriptpoints
ThreadFrames == {ScenarioFrame, Frame(8, Some("b.cpp"), Some(10), Undefined)}

\* what a stackTrace request resolves with: no frames, a top frame without
\* source path, or one of ThreadFrames
ThreadResults ==
    {[stackFrames |-> Undefined], [stackFrames |-> Some(<<>>)],
     [stackFrames |-> Some(<<Frame(9, Undefined, Some(10), Undefined)>>)]}
    \cup {[stackFrames |-> Some(<<frame>>)] : frame \in ThreadFrames}

InitThreads ==
    /\ sources = [p \in {"a.cpp"} |->
                    [setBreakpointsSeq |-> 1,
                     scriptpoints |->
                         <<[Scriptpoint(0, <<"H">>, FALSE) EXCEPT !.breakpoint =
                               Some(Desc(Some(1), Some("a.cpp"), Some(10), Undefined))]>>]]
    /\ idToSource = [i \in {1} |-> "a.cpp"]
    /\ step = FALSE
    /\ requests = <<[Request("setBreakpoints", Some("a.cpp"), Some(<<Tagged(<<"!", "H">>)>>),
                              Some(<<Untagged>>))
                        EXCEPT !.response =
                            Some([body |-> Some(<<Desc(Some(1), Some("a.cpp"), Some(10),
                                                       Undefined)>>),
                                  correlated |-> TRUE, sent |-> 1, nth |-> 1])]>>
    /\ handlers = <<>>
    /\ raised = 0

NextThreads ==
    \/ /\ Len(requests) <= MaxResumes
       /\ \E command \in ResumeCommands, threadId \in Threads :
             ResumeRequest(command, threadId)
    \/ /\ Len(handlers) < MaxThreadStops
       /\ \E body \in ThreadStops : Stopped(body)
    \/ \E n \in 1..Len(handlers) : StackTraceRejected(n)
    \/ \E n \in 1..Len(handlers), result \in ThreadResults :
          StackTraceResolved(n, result)

SpecThreads == InitThreads /\ [][NextThreads]_vars

\* request r is a step request for the thread of stop n, the latest request when
\* that stop arrived, and stop n is the first stop of the thread since r
OwnStop(n, r) ==
    /\ requests[r].command \in StepCommands
    /\ requests[r].threadId = Some(handlers[n].threadId)
    /\ handlers[n].sent = r
    /\ \A m \in 1..(n - 1) :
          handlers[m].sent = r => handlers[m].threadId # handlers[n].threadId

\* a stop of another thread was handled between request r and stop n
OtherStopBetween(n, r) ==
    \E m \in 1..(n - 1) :
        handlers[m].sent = r /\ handlers[m].threadId # handlers[n].threadId

\* C20: when a step request was sent for a thread and a stopped event of another
\* thread is handled before the step's own stopped event, the step's own stopped
\* event is still attributed to the step and issues no continue request, even
\* at a non-stopping scriptpoint with reason "breakpoint".
C20_OwnStopStepAttributed ==
    \A n \in 1..Len(handlers) : \A r \in 1..Len(requests) :
        (OwnStop(n, r) /\ OtherStopBetween(n, r)) =>
            (handlers[n].stepped /\ ~Did(handlers[n], "continue"))

\* the handler ended at the stack trace or at the source lookup: the request
\* failed, there was no frame, the frame had no path or the path no source
Aborted(h) ==
    /\ h.pc = "done"
    /\ (h.frame = Undefined \/ h.frame.path[1] \notin DOMAIN sources)

\* C21: if the stack trace request of a stop fails, returns no frames, returns a
\* top frame without source path, or the frame's path has no ScriptpointSource,
\* that stop executes no script and issues no continue request, the registry is
\* left unchanged, and a later stopped event is handled as usual.
C21_AbortWithoutEffect ==
    /\ [](\A h \in Handlers :
            Aborted(h) => (/\ h.executed = <<>>
                           /\ h.console = <<>>
                           /\ h.trace = <<Ev("stackTrace", h.threadId, "")>>))
    /\ [][\A n \in 1..Len(handlers) :
            (handlers[n].pc = "stackTrace" /\ Aborted(handlers'[n]))
            => (sources' = sources /\ idToSource' = idToSource /\ raised' = raised)]_vars
    /\ [](\A m \in 1..Len(handlers) :
            (/\ \E n \in 1..(m - 1) : Aborted(handlers[n])
             /\ handlers[m].pc = "done"
             /\ handlers[m].frame = ScenarioFrame)
            => (/\ handlers[m].results = <<TRUE>>
                /\ handlers[m].console = <<<<"hit">>>>
                /\ Continued(handlers[m])
                      <=> (~handlers[m].stepped /\ handlers[m].reason = "breakpoint")))

\* after a stop whose stack trace gave nothing, the next stop ran the script
\* and was resumed
C21_Witness ==
    /\ Len(handlers) = 2
    /\ Aborted(handlers[1]) /\ handlers[1].frame = Undefined
    /\ handlers[2].pc = "done" /\ handlers[2].frame = ScenarioFrame
    /\ handlers[2].sent >= handlers[1].sent
    /\ Continued(handlers[2])

\* the thread id the requests of a stop must carry: the event's, 0 if it has none
OwnThread(h) == IF h.event.threadId = Undefined THEN 0 ELSE h.event.threadId[1]

\* C25: the stack trace request and every continue request issued for a stopped
\* event carry that event's threadId, or 0 when the event has none, also when
\* the handlers of several stops are suspended at the same time.
C25_OwnThreadId ==
    \A h \in Handlers :
        /\ h.trace[1] = Ev("stackTrace", OwnThread(h), "")
        /\ \A t \in 1..Len(h.trace) :
              h.trace[t].op \in {"stackTrace", "continue"} => h.trace[t].num = OwnThread(h)

\* the stop of thread 3 was resumed for thread 3 after the stop of thread 4 had
\* arrived and while that one still awaits its stack trace
C25_Witness ==
    /\ Len(handlers) = 2
    /\ handlers[1].event.threadId = Some(3)
    /\ handlers[2].event.threadId = Some(4)
    /\ handlers[2].pc = "stackTrace"
    /\ handlers[1].trace[Len(handlers[1].trace)] = Ev("continue", 3, "")

----------------------------------------------------------------------------
(* The execution of scripts on its own: a source with up to MaxMatches      *)
(* scriptpoints, all bound at a.cpp:10, with every script of ScriptSet, and *)
(* a stopped-event handler that awaits its stack trace.  The adapter's      *)
(* variables form a leaf, a tree of depth 2 or a container that contains    *)
(* itself.                                                                  *)

\* number of scriptpoints bound at the location of the stop
MaxMatches == 2
\* number of variables requests of one stop
MaxCrawlRequests == 5

\* scripts: empty, one statement of each kind, text that is no JavaScript ("p"),
\* and two statements
ScriptSet ==
    {<<>>, <<"H">>, <<"E">>, <<"V">>, <<"M">>, <<"C">>, <<"T">>, <<"p">>,
     <<"H", "T">>, <<"V", "E">>}

\* the scriptpoint lists: entry i has index i - 1 and is bound to descriptor id i
ScriptpointLists ==
    UNION {[1..n -> [script : ScriptSet, stop : BOOLEAN]] : n \in 1..MaxMatches}

ScriptEvaluateResults ==
    [result : {"r"}, variablesReference : {0, 1, 2, 3}, memoryReference : {"m"}]

InitScripts ==
    /\ \E list \in ScriptpointLists :
          sources = [p \in {"a.cpp"} |->
             [setBreakpointsSeq |-> 1,
              scriptpoints |->
                 [i \in 1..Len(list) |->
                    [Scriptpoint(i - 1, list[i].script, list[i].stop) EXCEPT !.breakpoint =
                        Some(Desc(Some(i), Some("a.cpp"), Some(10), Undefined))]]]]
    /\ idToSource = [i \in 1..Len(sources["a.cpp"].scriptpoints) |-> "a.cpp"]
    /\ step = FALSE
    /\ requests = <<[Request("setBreakpoints", Some("a.cpp"), Undefined, Undefined)
                        EXCEPT !.response = Some([body |-> Undefined, correlated |-> TRUE,
                                                  sent |-> 1, nth |-> 1])]>>
    /\ handlers = <<[threadId |-> 3, reason |-> "breakpoint", stepped |-> FALSE,
                     pc |-> "stackTrace", frame |-> Undefined, live |-> FALSE,
                     arr |-> <<>>, i |-> 0, k |-> 0, executed |-> <<>>,
                     after |-> "setBreakpoints", sent |-> 1, seen |-> {1},
                     event |-> [threadId |-> Some(3), reason |-> "breakpoint"],
                     console |-> <<>>,
                     results |-> <<>>, crawls |-> <<>>,
                     trace |-> <<Ev("stackTrace", 3, "")>>]>>
    /\ raised = 0

\* the number of variables requests handler h has sent
CrawlRequests(h) == Cardinality({t \in 1..Len(h.trace) : h.trace[t].op = "variables"})

\* a variables request is answered while the stop has sent fewer than MaxCrawlRequests
CrawlStep ==
    /\ CrawlRequests(handlers[1]) < MaxCrawlRequests
    /\ \E j \in 1..Len(handlers[1].crawls) : VariablesResolved(1, j)

NextScripts ==
    \/ StackTraceResolved(1, [stackFrames |-> Some(<<ScenarioFrame>>)])
    \/ EvaluateRejected(1)
    \/ \E response \in ScriptEvaluateResults : EvaluateResolved(1, response)
    \/ ReadMemoryRejected(1)
    \/ ReadMemoryResolved(1)
    \/ \E j \in 1..Len(handlers[1].crawls) : VariablesRejected(1, j)
    \/ CrawlStep

SpecScripts == InitScripts /\ [][NextScripts]_vars

\* the adapter answers every variables request
SpecScriptsLive == SpecScripts /\ WF_vars(CrawlStep)

\* script j of h was not built, threw, or a request it awaited
\* (evaluate, readMemory) was rejected
ThrewOrRejected(h, j) ==
    \/ \E k \in 1..Len(h.executed[j].script) : h.executed[j].script[k] \notin Statements
    \/ \E k \in 1..Len(h.executed[j].script) : h.executed[j].script[k] = "T"
    \/ \E t \in 1..Len(h.trace) :
          /\ h.trace[t].op = "rejected" /\ h.trace[t].num = j
          /\ h.trace[t].text \in {"evaluate", "readMemory"}

\* the console messages of h that begin with the red colour marker
ErrorLines(h) ==
    {c \in 1..Len(h.console) : h.console[c] # <<>> /\ Head(h.console[c]) = "\\u001b[31m"}

\* the messages a failure may carry
Failures == {"SyntaxError", "e", "rejected"}

\* msg is the failure message and the script text between the colour markers
IsErrorLineOf(msg, script) ==
    \E e \in Failures :
        msg = <<"\\u001b[31m", "Scriptpoint exception \"", e, "\" executing: \"">>
              \o script \o <<"\"", "\\u001b[0m">>

RECURSIVE DumpLines(_, _)
RECURSIVE DumpEach(_, _, _)
DumpEach(variables, j, depth) ==
    IF j > Len(variables) THEN <<>>
    ELSE [i \in 1..depth |-> "  "]
         \o <<variables[j].name, ": ", variables[j].value, "\n">>
         \o DumpLines(variables[j].variablesReference, depth + 1)
         \o DumpEach(variables, j + 1, depth)

DumpLines(variablesReference, depth) ==
    IF variablesReference > 0 THEN DumpEach(VariablesOf(variablesReference), 1, depth)
    ELSE <<>>

\* the references whose graph is a tree
TreeReferences == {0, 1, 2}

\* C23: variables(expression) returns, after its evaluate round trip, the line
\* of the expression followed by one line 'name: value' for every node of the
\* result's tree, depth first, each indented by its depth; no variables request
\* is sent for a reference that is not positive.
C23_VariablesDump ==
    /\ [][\A response \in ScriptEvaluateResults :
            (/\ EvaluateResolved(1, response)
             /\ handlers[1].executed[Len(handlers[1].executed)].script[handlers[1].k] = "V"
             /\ response.variablesReference \in TreeReferences)
            => handlers'[1].console[Len(handlers[1].console) + 1]
                  = <<"x", ": ", response.result, "\n">>
                    \o DumpLines(response.variablesReference, 1)]_vars
    /\ [](\A h \in Handlers : \A t \in 1..Len(h.trace) :
            h.trace[t].op = "variables" => h.trace[t].num > 0)

\* the part of C23 about the requests: one for every positive reference only
C23_RequestsOnlyPositive ==
    \A h \in Handlers : \A t \in 1..Len(h.trace) :
        h.trace[t].op = "variables" => h.trace[t].num > 0

\* the variable references the adapter has children for
KnownReferences == {r \in 1..MaxCrawlRequests : VariablesOf(r) # <<>>}

\* C24: the crawl started by variables(expression) terminates with finitely
\* many requests also when a reference leads back to an ancestor: it does not
\* enter a container from inside that container, so no request is nested
\* deeper than there are references.
C24_CrawlDepthBounded ==
    \A h \in Handlers : \A j \in 1..Len(h.crawls) :
        h.crawls[j].indentLevel <= Cardinality(KnownReferences)

\* C24 as a liveness property: from some point on no variables request of the
\* stop is outstanding, whatever graph of references the adapter reports.
C24_CrawlTerminates ==
    <>[](\A h \in Handlers : h.crawls = <<>>)

\* C24 for the graphs that are trees: the crawls of a stop end unless the stop
\* has entered the container that contains itself
C24_TreeCrawlTerminates ==
    <>[](\A h \in Handlers :
            \/ h.crawls = <<>>
            \/ \E t \in 1..Len(h.trace) : h.trace[t] = Ev("variables", 3, ""))

\* the number of continue requests h has sent
Continues(h) == Cardinality({t \in 1..Len(h.trace) : h.trace[t].op = "continue"})

\* C28: handling one stopped event issues at most one continue request,
\* whatever the number of scriptpoints whose descriptors match the top frame.
C28_AtMostOneContinue ==
    \A h \in Handlers : Continues(h) <= 1

\* frame-scoped and script requests
ScriptRequests == {"evaluate", "variables", "readMemory"}

\* C29: the continue request of a stop is issued only when every round trip
\* started for that stop's script has completed, and no evaluate, variables or
\* readMemory request of that stop is issued after its continue request.
C29_ContinueAfterRoundTrips ==
    /\ [][\A n \in 1..Len(handlers) :
            Continues(handlers'[n]) > Continues(handlers[n])
            => handlers'[n].crawls = <<>>]_vars
    /\ [](\A h \in Handlers : \A t, u \in 1..Len(h.trace) :
            (h.trace[t].op = "continue" /\ u > t) => h.trace[u].op \notin ScriptRequests)


----------------------------------------------------------------------------
(* The id registry, checked under SpecRegistry *)

\* the descriptors that scriptpoints of source p are bound to
BoundDescriptors(p) ==
    {sources[p].scriptpoints[i].breakpoint[1] :
        i \in {j \in 1..Len(sources[p].scriptpoints) :
                  sources[p].scriptpoints[j].breakpoint # Undefined}}

\* C26: in every reachable state, for every scriptpoint whose bound descriptor
\* carries an id, whatever integer it is, idToSource maps that id to the
\* source that contains the scriptpoint.
C26_BoundIdsMapped ==
    \A p \in DOMAIN sources : \A b \in BoundDescriptors(p) :
        b.id # Undefined =>
            (b.id[1] \in DOMAIN idToSource /\ idToSource[b.id[1]] = p)

\* the same for the ids other than 0, as far as the key goes: the id of every
\* bound descriptor that is not 0 is a key of idToSource
C26_NonZeroIdsAreKeys ==
    \A p \in DOMAIN sources : \A b \in BoundDescriptors(p) :
        TruthyNum(b.id) => b.id[1] \in DOMAIN idToSource


----------------------------------------------------------------------------
(* Stops before the response, checked under Spec *)

\* the latest setBreakpoints request for the path of h's frame, 0 if h has no
\* frame or the path no source
FrameRequest(h) ==
    IF h.frame = Undefined \/ ~TruthyStr(h.frame.path) THEN 0
    ELSE IF h.frame.path[1] \notin DOMAIN sources THEN 0
    ELSE sources[h.frame.path[1]].setBreakpointsSeq

\* nothing was run and nothing resumed for the stop
NoScriptNoContinue(h) ==
    /\ h.executed = <<>>
    /\ h.console = <<>>
    /\ ~Did(h, "continue")

\* C27, as stated: a stopped event that arrives after the rewrite of the
\* request for the frame's path and before the response to that request
\* executes no script and issues no continue request.
C27_StopBeforeResponse ==
    \A h \in Handlers :
        (/\ FrameRequest(h) > 0
         /\ FrameRequest(h) <= h.sent
         /\ FrameRequest(h) \notin h.seen)
        => NoScriptNoContinue(h)

\* C27: a scriptpoint without descriptor is never matched.  A stop whose stack
\* trace resolves while the latest request for the frame's path is unanswered
\* ends there: it executes no script and issues no continue request.
C27_UnboundNeverMatched ==
    [][\A n \in 1..Len(handlers) :
          (/\ handlers[n].pc = "stackTrace"
           /\ handlers'[n].pc # "stackTrace"
           /\ FrameRequest(handlers'[n]) > 0
           /\ requests[FrameRequest(handlers'[n])].response = Undefined)
          => (handlers'[n].pc = "done" /\ NoScriptNoContinue(handlers'[n]))]_vars

\* a stop at line 10 of a.cpp has ended without running anything while the
\* request that registered a scriptpoint for a.cpp is unanswered
C27_Witness ==
    \E h \in Handlers :
        /\ h.pc = "done" /\ h.frame = ScenarioFrame
        /\ h.reason = "breakpoint" /\ ~h.stepped
        /\ FrameRequest(h) > 0 /\ FrameRequest(h) <= h.sent
        /\ requests[FrameRequest(h)].response = Undefined
        /\ sources["a.cpp"].scriptpoints # <<>>
        /\ NoScriptNoContinue(h)


----------------------------------------------------------------------------
(* Failed and short responses: setBreakpoints requests and one response to  *)
(* each, whose body is missing or holds at most as many descriptors as the  *)
(* request has breakpoints.                                                 *)

\* the bodies of a response to request seq: none, or the first k descriptors
ShortBodies(seq) ==
    LET n == IF requests[seq].breakpoints = Undefined THEN 0
             ELSE Len(requests[seq].breakpoints[1])
    IN  {Undefined} \cup
        {Some(b) : b \in UNION {[1..k -> RegistryDescriptors(requests[seq].path)] :
                                   k \in 0..n}}

NextResponses ==
    \/ /\ Len(requests) < MaxSeq
       /\ \E path \in RegistryPaths, breakpoints \in RequestBreakpoints :
             SetBreakpoints(path, breakpoints)
    \/ \E seq \in 1..Len(requests) :
          /\ requests[seq].response = Undefined
          /\ \E body \in ShortBodies(seq) : Response(seq, body)

SpecResponses == Init /\ [][NextResponses]_vars

\* request seq is answered in this step by a response bound to a source
Binds(seq) ==
    /\ requests[seq].response = Undefined
    /\ requests'[seq].response # Undefined
    /\ requests'[seq].response[1].correlated

\* what a scriptpoint with the given index is to hold after a response with body
Expected(body, index) ==
    IF body = Undefined THEN Undefined
    ELSE IF index + 1 <= Len(body[1]) THEN Some(body[1][index + 1]) ELSE Undefined

\* the scriptpoints of the source of request seq hold what the response has for them
BoundAsFarAsPresent(seq) ==
    \A p \in Correlated(seq) :
        /\ Len(sources'[p].scriptpoints) = Len(sources[p].scriptpoints)
        /\ \A i \in 1..Len(sources[p].scriptpoints) :
              sources'[p].scriptpoints[i].breakpoint =
                 Expected(requests'[seq].response[1].body, sources[p].scriptpoints[i].index)

\* C30: handling a response that is correlated with a source but has no body,
\* or fewer descriptors than a scriptpoint's index asks for, does not raise
\* out of the handler; the scriptpoints it has no descriptor for stay unbound
\* and the others are bound, also for the responses that follow.
C30_FailedResponseContained ==
    [][\A seq \in 1..Len(requests) :
          Binds(seq) => (raised' = raised /\ BoundAsFarAsPresent(seq))]_vars

\* the binding alone: whether or not the handler raises, each scriptpoint holds
\* the descriptor at its index if the response has one and none otherwise, and
\* so it is for a response handled after one that raised
C30_BindsWhatIsThere ==
    [][\A seq \in 1..Len(requests) : Binds(seq) => BoundAsFarAsPresent(seq)]_vars

\* a response that has a descriptor for every scriptpoint does not raise
C30_CompleteResponseDoesNotRaise ==
    [][\A seq \in 1..Len(requests) :
          (/\ Binds(seq)
           /\ requests'[seq].response[1].body # Undefined
           /\ \A p \in Correlated(seq) : \A i \in 1..Len(sources[p].scriptpoints) :
                 sources[p].scriptpoints[i].index + 1
                    <= Len(requests'[seq].response[1].body[1]))
          => raised' = raised]_vars


----------------------------------------------------------------------------
(* Stops of every reason: a tracker whose source a.cpp has one bound        *)
(* scriptpoint, stopping or not, receives resume requests and stopped       *)
(* events of thread 3 with the reasons of the protocol; the top frame is at *)
(* the scriptpoint's line or at the next.                                   *)

\* stopped.body.reason
StopReasons ==
    {"breakpoint", "function breakpoint", "step", "pause", "exception", "entry"}

\* body of a stopped event
ReasonStops == [threadId : {Some(3)}, reason : StopReasons]

\* the top frame: at the scriptpoint, one line below it
ReasonFrames == {ScenarioFrame, Frame(7, Some("a.cpp"), Some(11), Undefined)}

InitReasons ==
    /\ \E stop \in BOOLEAN :
          sources = [p \in {"a.cpp"} |->
                       [setBreakpointsSeq |-> 1,
                        scriptpoints |->
                            <<[Scriptpoint(0, <<"H">>, stop) EXCEPT !.breakpoint =
                                  Some(Desc(Some(1), Some("a.cpp"), Some(10), Undefined))]>>]]
    /\ idToSource = [i \in {1} |-> "a.cpp"]
    /\ step = FALSE
    /\ requests = <<[Request("setBreakpoints", Some("a.cpp"), Undefined, Undefined)
                        EXCEPT !.response = Some([body |-> Undefined, correlated |-> TRUE,
                                                  sent |-> 1, nth |-> 1])]>>
    /\ handlers = <<>>
    /\ raised = 0

NextReasons ==
    \/ /\ Len(requests) <= MaxResumes
       /\ \E command \in ResumeCommands, threadId \in ResumeThreads :
             ResumeRequest(command, threadId)
    \/ /\ Len(handlers) < MaxThreadStops
       /\ \E body \in ReasonStops : Stopped(body)
    \/ \E n \in 1..Len(handlers), frame \in ReasonFrames :
          StackTraceResolved(n, [stackFrames |-> Some(<<frame>>)])

SpecReasons == InitReasons /\ [][NextReasons]_vars

\* the bound scriptpoints of the source of h's frame whose descriptor matches the frame
MatchingScriptpoints(h) ==
    LET list == sources[h.frame.path[1]].scriptpoints
    IN  {list[i] : i \in {j \in 1..Len(list) :
                             /\ list[j].breakpoint # Undefined
                             /\ Match(list[j].breakpoint[1], h.frame)}}

\* h has run the script of sp to its end
Ran(h, sp) ==
    \E j \in 1..Len(h.executed) :
        /\ h.executed[j].index = sp.index
        /\ h.executed[j].script = sp.script
        /\ j <= Len(h.results)
        /\ h.results[j]
        /\ h.console = <<<<"hit">>>>

\* C31: a stopped event, whatever its reason and whether or not a step command
\* preceded it, whose top frame matches a bound scriptpoint runs that
\* scriptpoint's script; the reason and the step flag decide about the
\* continue request only.
C31_RunsWhateverReason ==
    \A h \in Handlers :
        (h.pc = "done" /\ h.frame # Undefined) =>
            \A sp \in MatchingScriptpoints(h) :
                /\ Ran(h, sp)
                /\ Did(h, "continue")
                      <=> (~sp.stop /\ ~h.stepped /\ ReasonIncludesBreakpoint(h.reason))

\* a stop reported as an exception after a step command has run the script of
\* the scriptpoint at its frame and was not resumed
C31_Witness ==
    \E h \in Handlers :
        /\ h.pc = "done" /\ h.frame = ScenarioFrame
        /\ h.reason = "exception" /\ h.stepped
        /\ MatchingScriptpoints(h) # {}
        /\ \A sp \in MatchingScriptpoints(h) : Ran(h, sp)
        /\ ~Did(h, "continue")

\* a stop by a pause, without a step command before it, has run the script
C31_WitnessPause ==
    \E h \in Handlers :
        /\ h.pc = "done" /\ h.frame = ScenarioFrame
        /\ h.reason = "pause" /\ ~h.stepped
        /\ h.results = <<TRUE>>
        /\ ~Did(h, "continue")

\* a stop one line below the scriptpoint has run nothing
C31_WitnessNoMatch ==
    \E h \in Handlers :
        /\ h.pc = "done" /\ h.frame # Undefined /\ h.frame # ScenarioFrame
        /\ h.executed = <<>>

====
